---- MODULE Spec2Model ----
(***************************************************************************)
(* Model of the medicine routes of medicalStoreBackend: the add-medicine   *)
(* handler (POST /) and the availability check (GET /check) with its three *)
(* stages -- exact in-stock lookup, Fuse.js fuzzy search over the whole    *)
(* collection, Gemini suggestions re-checked against the collection.       *)
(*                                                                         *)
(* The route file exists in three variants (lines 47-150, 203-326 and      *)
(* 372-503 of src/unnamed/part_000); `variant` says which one is mounted.  *)
(*                                                                         *)
(* Strings whose characters matter (medicine names, the raw Gemini reply,  *)
(* error messages) are sequences of one-character strings.  Model          *)
(* identifiers and status labels are only compared for equality and are    *)
(* plain strings.                                                          *)
(***************************************************************************)
EXTENDS Integers, Sequences, FiniteSets, TLC

(***************************************************************************)
(* Bounds                                                                  *)
(***************************************************************************)
\* Largest number of documents the collection holds in the model.
MaxRecords == 2

(***************************************************************************)
(* Character strings                                                       *)
(***************************************************************************)
UpperToLower ==
  [c \in {"A", "B", "C", "D", "E", "I", "N", "O", "P"} |->
     CASE c = "A" -> "a" [] c = "B" -> "b" [] c = "C" -> "c"
       [] c = "D" -> "d" [] c = "E" -> "e" [] c = "I" -> "i"
       [] c = "N" -> "n" [] c = "O" -> "o" [] c = "P" -> "p"]

\* String.prototype.toLowerCase on one character.
LowerChar(c) == IF c \in DOMAIN UpperToLower THEN UpperToLower[c] ELSE c

\* String.prototype.toLowerCase.
toLowerCase(s) == [i \in 1..Len(s) |-> LowerChar(s[i])]

IsSpace(c) == c \in {" ", "\n"}

RECURSIVE TrimLeft(_)
TrimLeft(s) ==
  IF s # <<>> /\ IsSpace(Head(s)) THEN TrimLeft(Tail(s)) ELSE s

RECURSIVE TrimRight(_)
TrimRight(s) ==
  IF s # <<>> /\ IsSpace(s[Len(s)]) THEN TrimRight(SubSeq(s, 1, Len(s) - 1)) ELSE s

\* String.prototype.trim.
trim(s) == TrimRight(TrimLeft(s))

\* String.prototype.split(','): the pieces between the commas, empty pieces kept.
RECURSIVE SplitFrom(_, _)
SplitFrom(s, cur) ==
  IF s = <<>> THEN <<cur>>
  ELSE IF Head(s) = "," THEN <<cur>> \o SplitFrom(Tail(s), <<>>)
  ELSE SplitFrom(Tail(s), Append(cur, Head(s)))

split(s) == SplitFrom(s, <<>>)

\* Array.prototype.filter(Boolean) on an array of strings: drops the empty ones.
RECURSIVE filterBoolean(_)
filterBoolean(xs) ==
  IF xs = <<>> THEN <<>>
  ELSE IF Head(xs) = <<>> THEN filterBoolean(Tail(xs))
  ELSE <<Head(xs)>> \o filterBoolean(Tail(xs))

\* Array.prototype.slice(0, n).
slice(xs, n) == SubSeq(xs, 1, IF Len(xs) < n THEN Len(xs) ELSE n)

\* String.prototype.includes.
includes(s, sub) ==
  \E i \in 0..(Len(s) - Len(sub)) : SubSeq(s, i + 1, i + Len(sub)) = sub

(***************************************************************************)
(* new RegExp(`^${text}$`, 'i'): the text is spliced in unescaped, so '.'  *)
(* is the any-character atom and '*' repeats the atom before it.           *)
(***************************************************************************)
\* The constructor throws SyntaxError ("Nothing to repeat") when a '*' has no
\* atom before it.
RegExpThrows(p) ==
  \E i \in 1..Len(p) :
    p[i] = "*" /\ (IF i = 1 THEN TRUE ELSE p[i - 1] = "*")

AtomMatches(a, c) == (a = "." /\ c # "\n") \/ LowerChar(a) = LowerChar(c)

\* Does p from position i on match t from position j to its end?
RECURSIVE MatchFrom(_, _, _, _)
MatchFrom(p, i, t, j) ==
  IF i > Len(p) THEN j > Len(t)
  ELSE IF i < Len(p) /\ p[i + 1] = "*"
    THEN \/ MatchFrom(p, i + 2, t, j)
         \/ /\ j <= Len(t)
            /\ AtomMatches(p[i], t[j])
            /\ MatchFrom(p, i, t, j + 1)
    ELSE /\ j <= Len(t)
         /\ AtomMatches(p[i], t[j])
         /\ MatchFrom(p, i + 1, t, j + 1)

\* /^p$/i.test(t), for a pattern the constructor accepted.
RegExpTest(p, t) == MatchFrom(p, 1, t, 1)

(***************************************************************************)
(* Fuse.js: new Fuse(all, { keys: ['tabletName'], threshold: 0.3 }) and    *)
(* fuse.search(name).  Fuse compares lower-cased pattern and text with the *)
(* Bitap algorithm: the pattern matches at a location of the text with a   *)
(* number of errors (insertions, deletions, substitutions) and             *)
(*    score = errors / pattern length + location / distance,               *)
(* an identical text scores 0, any other match at least 0.001, and a text  *)
(* is a result when its best score is within the threshold.  Scores are    *)
(* kept as integers: score * patternLength * 1000.                         *)
(***************************************************************************)
\* threshold: 0.3, per mille.
FuseThreshold == 300

\* Fuse's default `distance` option.
FuseDistance == 100

\* Is the edit distance between p and t at most k?
RECURSIVE WithinEdits(_, _, _)
WithinEdits(p, t, k) ==
  IF k < 0 THEN FALSE
  ELSE IF p = <<>> THEN Len(t) <= k
  ELSE IF t = <<>> THEN Len(p) <= k
  ELSE IF Head(p) = Head(t) THEN WithinEdits(Tail(p), Tail(t), k)
  ELSE \/ WithinEdits(Tail(p), Tail(t), k - 1)
       \/ WithinEdits(Tail(p), t, k - 1)
       \/ WithinEdits(p, Tail(t), k - 1)

\* The scores (scaled) of the ways pattern p matches in text t within the
\* threshold: e errors at location loc.
BitapScores(p, t) ==
  { 1000 * e + (1000 \div FuseDistance) * loc * Len(p) :
      <<e, loc>> \in
        { el \in (0..(Len(p) - 1)) \X (0..(Len(t) - 1)) :
            /\ 1000 * el[1] + (1000 \div FuseDistance) * el[2] * Len(p)
                 <= FuseThreshold * Len(p)
            /\ \E end \in el[2]..Len(t) :
                 WithinEdits(p, SubSeq(t, el[2] + 1, end), el[1]) } }

SetMin(S) == CHOOSE x \in S : \A y \in S : x <= y

IntMax(a, b) == IF a >= b THEN a ELSE b

\* BitapSearch.searchIn: is the text a match, and with which (scaled) score.
FuseIsMatch(pattern, text) ==
  LET p == toLowerCase(pattern)
      t == toLowerCase(text)
  IN  p = t \/ BitapScores(p, t) # {}

FuseScore(pattern, text) ==
  LET p == toLowerCase(pattern)
      t == toLowerCase(text)
  IN  IF p = t THEN 0 ELSE IntMax(Len(p), SetMin(BitapScores(p, t)))

\* Is result index i ranked before index j?  Ascending score, then the
\* position in the searched list.
RankedBefore(docs, pattern, i, j) ==
  LET si == FuseScore(pattern, docs[i].tabletName)
      sj == FuseScore(pattern, docs[j].tabletName)
  IN  si < sj \/ (si = sj /\ i < j)

\* fuse.search(name): the positions in docs of the matching documents, best
\* first.
RECURSIVE SortIndices(_, _, _)
SortIndices(docs, pattern, I) ==
  IF I = {} THEN <<>>
  ELSE LET best == CHOOSE i \in I :
                     \A j \in I \ {i} : RankedBefore(docs, pattern, i, j)
       IN  <<best>> \o SortIndices(docs, pattern, I \ {best})

FuseSearch(docs, pattern) ==
  SortIndices(docs, pattern,
              { i \in 1..Len(docs) : FuseIsMatch(pattern, docs[i].tabletName) })

\* TopFuzzy without the slice: every match is listed.
TopFuzzyAll(docs, pattern) ==
  LET top == FuseSearch(docs, pattern)
  IN  [k \in 1..Len(top) |-> docs[top[k]].tabletName]

\* fuzzyResults.slice(0, 3).map(r => r.item.tabletName)
TopFuzzy(docs, pattern) ==
  LET top == slice(FuseSearch(docs, pattern), 3)
  IN  [k \in 1..Len(top) |-> docs[top[k]].tabletName]

(***************************************************************************)
(* Inputs of the model                                                     *)
(***************************************************************************)
\* A query or body parameter that is absent (JavaScript undefined).  Its one
\* element is not a character, so it differs from every string.
Undefined == <<"undefined">>

\* req.body.quantityInStock === undefined
UndefinedQuantity == -1

\* Names given to POST /.
AddNames ==
  { <<"a", "b", "c">>, <<"A", "B", "C">>, <<"a", "b", "*">>,
    <<"I", "b", "u", "p", "r", "o", "f", "e", "n">> }

\* ?name= of GET /check.
QueryNames ==
  { Undefined, <<>>, <<" ">>,
    <<"a", "b", "c">>, <<"A", "B", "C">>, <<"a", "b", ".">>, <<"a", "b", "*">>,
    <<"*">>, <<"b", "c">>, <<"a", "b", "c", "d">>, <<"x", "y", "z">> }

\* ?model= of GET /check; "" stands for an absent or empty parameter, which
\* `model || default` treats alike.
QueryModels ==
  { "", "gemini-1.5-flash", "gpt-4" }

\* result.response.text() of the Gemini call.
RawResponses ==
  { <<"N", "o", "n", "e">>,
    <<"x", "y", "z", ",", " ", "a", "b", "c">>,
    <<"x", ",", "y", ",", "z", ",", "a", "b", "c">>,
    <<"a", "b", ".">>,
    <<"*", ",", "a", "b", "c">>,
    <<"N", "O", "N", "E">>,
    <<"N", "o", "n", "e", "\n">>,
    <<"x", "y", "z", ",", " ", ",", "a", "b", "c">> }

\* apiError.message of a failed Gemini call: rate limiting, and a rejected key.
ErrorMessages ==
  { <<"[", "4", "2", "9", "]">>, <<"[", "4", "0", "3", "]">> }

\* The route file mounted as ./routes/medicineRoutes.
Variants == {1, 2, 3}

\* Requests to POST / that can be in flight together.
Adders == {1, 2}

(***************************************************************************)
(* State                                                                   *)
(***************************************************************************)
VARIABLES
  variant,   \* which variant of the route file is mounted
  store,     \* the medicines collection, in natural (insertion) order
  adders,    \* the POST / requests in flight
  pc,        \* where the GET /check request is
  name,      \* req.query.name
  model,     \* req.query.model
  topFuzzy,  \* the names found by the fuzzy stage
  top3,      \* the candidates of the substitute stage
  idx,       \* position in top3 of the candidate looked up next
  calls,     \* the calls the request made on the collection, on Gemini, on res
  resp,      \* the body last sent with res.json
  seen       \* what a client that repeats its request kept of the previous one

vars == <<variant, store, adders, pc, name, model, topFuzzy, top3, idx, calls, resp, seen>>

checkVars == <<pc, name, model, topFuzzy, top3, idx, calls, resp>>

(***************************************************************************)
(* The medicines collection                                                *)
(***************************************************************************)
Doc(tabletName, quantityInStock) ==
  [tabletName |-> tabletName, quantityInStock |-> quantityInStock]

\* The documents selected by
\*   { tabletName: new RegExp(`^${text}$`, 'i'), quantityInStock: { $gt: 0 } }
InStockMatches(docs, text) ==
  { i \in 1..Len(docs) :
      /\ RegExpTest(text, docs[i].tabletName)
      /\ docs[i].quantityInStock > 0 }

\* FindOneInStock returning any one of the selected documents.
FindOneAnyInStock(docs, text) ==
  IF InStockMatches(docs, text) = {} THEN { <<>> }
  ELSE { <<docs[i]>> : i \in InStockMatches(docs, text) }

\* Medicine.findOne(filter): without a sort, the first of the selected
\* documents in the natural order of the collection, or null.  A result is
\* <<doc>> or <<>>.
FindOneInStock(docs, text) ==
  IF InStockMatches(docs, text) = {} THEN { <<>> }
  ELSE { <<docs[SetMin(InStockMatches(docs, text))]>> }

\* Medicine.findOne({ tabletName }): equality on the name.
FindOneByName(docs, tabletName) ==
  IF \E i \in 1..Len(docs) : docs[i].tabletName = tabletName
  THEN { <<docs[i]>> : i \in { j \in 1..Len(docs) : docs[j].tabletName = tabletName } }
  ELSE { <<>> }

\* The unique index on tabletName rejects the insert (error code 11000).
DuplicateKey(docs, tabletName) ==
  \E i \in 1..Len(docs) : docs[i].tabletName = tabletName

(***************************************************************************)
(* GET /check: configuration and response bodies                           *)
(***************************************************************************)
allowedGeminiModels(v) ==
  IF v = 1
  THEN { "gemini-2.5-flash-lite-preview-06-17", "gemini-2.0-flash-exp",
         "gemini-2.0-pro-exp" }
  ELSE { "gemini-2.5-flash-lite-preview-06-17", "gemini-1.5-pro",
         "gemini-1.5-flash" }

\* const modelToUse = model || <default>
modelToUse(v, m) ==
  IF m # "" THEN m
  ELSE IF v = 2 THEN "gemini-1.5-flash"
  ELSE "gemini-2.5-flash-lite-preview-06-17"

\* ModelAllowed with the check left out.
ModelAlwaysAllowed(v, m) == TRUE

\* allowedGeminiModels.includes(modelToUse)
ModelAllowed(v, m) == modelToUse(v, m) \in allowedGeminiModels(v)

\* if (!name): absent or empty.
NameMissing(n) == n = Undefined \/ n = <<>>

\* Maximum number of candidates of the substitute stage: slice(0, 3).
MaxCandidates == 3

\* Top3 cutting one place too far.
Top4(alts) == slice(alts, MaxCandidates + 1)

\* geminiAlternatives.slice(0, 3)
Top3(alts) == slice(alts, MaxCandidates)

\* ParseAlternatives comparing the reply with "none" as it is written.
ParseAlternativesCaseSensitive(v, raw) ==
  LET text == IF v = 2 THEN trim(raw) ELSE raw
  IN  IF text # <<>> /\ text # <<"n", "o", "n", "e">>
      THEN filterBoolean([k \in 1..Len(split(text)) |-> trim(split(text)[k])])
      ELSE <<>>

\* The reply parsed into candidate names; variant 2 trims the reply first.
ParseAlternatives(v, raw) ==
  LET text == IF v = 2 THEN trim(raw) ELSE raw
  IN  IF text # <<>> /\ toLowerCase(text) # <<"n", "o", "n", "e">>
      THEN filterBoolean([k \in 1..Len(split(text)) |-> trim(split(text)[k])])
      ELSE <<>>

\* The hard-coded list variant 2 uses when the quota is exceeded.
FallbackAlternatives ==
  << <<"P", "a", "r", "a", "c", "e", "t", "a", "m", "o", "l">>,
     <<"I", "b", "u", "p", "r", "o", "f", "e", "n">>,
     <<"D", "i", "c", "l", "o", "f", "e", "n", "a", "c">> >>

\* AbsorbsFailure without the test of the message.
AbsorbsAnyFailure(v, message) == v = 2

\* AbsorbsFailure with the rate-limit branch lost.
AbsorbsNoFailure(v, message) == FALSE

\* Is the failure of the Gemini call absorbed?  Only variant 2 has the
\* branch: apiError.message.includes("429").
AbsorbsFailure(v, message) == v = 2 /\ includes(message, <<"4", "2", "9">>)

Body(code, status, error, data, names, disclaimer) ==
  [code |-> code, status |-> status, error |-> error, data |-> data,
   names |-> names, disclaimer |-> disclaimer]

NoBody == Body(0, "", "", <<>>, <<>>, "")

NameRequired ==
  Body(400, "", "Medicine name query parameter is required.", <<>>, <<>>, "")

AvailableLocally(found) == Body(200, "available_locally", "", found, <<>>, "")

SimilarExist(names) ==
  Body(200, "not_found_but_similar_exist", "", <<>>, names, "")

InvalidModel == Body(400, "", "Invalid Gemini model.", <<>>, <<>>, "")

GeminiError ==
  Body(502, "", "Error communicating with Google Gemini API.", <<>>, <<>>, "")

AlternativeDisclaimer(v) ==
  CASE v = 1 -> "Suggestions are informational only; consult a healthcare professional."
    [] v = 2 -> "For informational purposes only. Consult a healthcare professional before substituting."
    [] v = 3 -> "This suggestion is for informational purposes only and should be confirmed by a healthcare professional."

NotAvailableDisclaimer(v) ==
  CASE v = 1 -> "This information is for educational use; verify with a licensed pharmacist."
    [] v = 2 -> "For informational purposes only. Please verify with a healthcare professional."
    [] v = 3 -> "This information is for informational purposes only and should be confirmed by a healthcare professional."

NotAvailableStatus(v) ==
  IF v = 1 THEN "not_available_anywhere"
  ELSE "not_available_locally_and_no_stocked_alternatives"

AlternativeAvailable(v, found) ==
  Body(200, "alternative_available_locally", "", found, <<>>, AlternativeDisclaimer(v))

\* NotAvailable with the disclaimer left out.
NotAvailableNoDisclaimer(v, names) ==
  Body(200, NotAvailableStatus(v), "", <<>>, names, "")

NotAvailable(v, names) ==
  Body(200, NotAvailableStatus(v), "", <<>>, names, NotAvailableDisclaimer(v))

\* The outer catch.
ServerError(v) ==
  Body(500, "", IF v = 1 THEN "Internal server error" ELSE "Server error",
       <<>>, <<>>, "")

\* What the request did: a call on the collection, on Gemini, or on res.
Call(op, arg, out) == [op |-> op, arg |-> arg, out |-> out]

Sent == Call("res.json", <<>>, "sent")

(***************************************************************************)
(* GET /check: the handler, one action per stretch between two awaits      *)
(***************************************************************************)
\* Lines 48-52: the request arrives; an absent or empty name is answered 400.
CheckReceive(n, m) ==
  /\ pc = "idle"
  /\ \A a \in Adders : adders[a].pc = "idle"
  /\ name' = n
  /\ model' = m
  /\ IF NameMissing(n)
     THEN /\ resp' = NameRequired
          /\ calls' = <<Sent>>
          /\ pc' = "done"
     ELSE /\ resp' = NoBody
          /\ calls' = <<>>
          /\ pc' = "exact"
  /\ UNCHANGED <<seen, variant, store, adders, topFuzzy, top3, idx>>

\* Caught answering a failure as if nothing had been found.
CaughtAsNotAvailable(before) ==
  /\ resp' = NotAvailable(variant, <<>>)
  /\ calls' = before \o <<Sent>>
  /\ pc' = "done"

\* The outer catch answers 500; `before` are the calls made up to the throw.
Caught(before) ==
  /\ resp' = ServerError(variant)
  /\ calls' = before \o <<Sent>>
  /\ pc' = "done"

\* AfterExact without the `return` of line 62.
AfterExactNoReturn(found) == "fuzzy"

\* if (localMedicine) return res.json(...): where the handler is after stage 1.
AfterExact(found) == IF found # <<>> THEN "done" ELSE "fuzzy"

\* Lines 56-67: the exact in-stock lookup.
ExactStage ==
  /\ pc = "exact"
  /\ \/ /\ RegExpThrows(name)
        /\ Caught(calls)
     \/ /\ ~RegExpThrows(name)
        /\ Caught(Append(calls, Call("findOne", name, "throw")))
     \/ /\ ~RegExpThrows(name)
        /\ \E localMedicine \in FindOneInStock(store, name) :
             IF localMedicine # <<>>
             THEN /\ resp' = AvailableLocally(localMedicine)
                  /\ calls' = calls \o <<Call("findOne", name, "hit"), Sent>>
                  /\ pc' = AfterExact(localMedicine)
             ELSE /\ resp' = resp
                  /\ calls' = Append(calls, Call("findOne", name, "miss"))
                  /\ pc' = AfterExact(localMedicine)
  /\ UNCHANGED <<seen, variant, store, adders, name, model, topFuzzy, top3, idx>>

\* FuzzyOutcome without the `return` of line 76: the names found do not end
\* the request.
FuzzyOutcomeFallsThrough(v, names, m) ==
  IF ~ModelAllowed(v, m) THEN "invalid_model" ELSE "suggest"

\* FuzzyOutcome with the model identifier checked before the names found.
FuzzyOutcomeModelFirst(v, names, m) ==
  IF ~ModelAllowed(v, m) THEN "invalid_model"
  ELSE IF names # <<>> THEN "similar"
  ELSE "suggest"

\* What lines 75-91 decide once the fuzzy search has run.
FuzzyOutcome(v, names, m) ==
  IF names # <<>> THEN "similar"
  ELSE IF ~ModelAllowed(v, m) THEN "invalid_model"
  ELSE "suggest"

\* Lines 70-91: the scan of the collection, the fuzzy search and, when it
\* finds nothing, the check of the model identifier.
FuzzyStage ==
  /\ pc = "fuzzy"
  /\ \/ /\ Caught(Append(calls, Call("find", <<>>, "throw")))
        /\ UNCHANGED topFuzzy
     \/ LET names == TopFuzzy(store, name)
            outcome == FuzzyOutcome(variant, names, model)
            found == Append(calls, Call("find", <<>>, "ok"))
        IN  /\ topFuzzy' = names
            /\ CASE outcome = "similar" ->
                      /\ resp' = SimilarExist(names)
                      /\ calls' = Append(found, Sent)
                      /\ pc' = "done"
                 [] outcome = "invalid_model" ->
                      /\ resp' = InvalidModel
                      /\ calls' = Append(found, Sent)
                      /\ pc' = "done"
                 [] outcome = "suggest" ->
                      /\ resp' = resp
                      /\ calls' = found
                      /\ pc' = "suggest"
  /\ UNCHANGED <<seen, variant, store, adders, name, model, top3, idx>>

\* Lines 119-144: the candidates are cut to three and the loop is entered;
\* with no candidate its body never runs.
EnterLoop(alts, made) ==
  /\ top3' = alts
  /\ idx' = 1
  /\ IF alts = <<>>
     THEN /\ resp' = NotAvailable(variant, alts)
          /\ calls' = Append(made, Sent)
          /\ pc' = "done"
     ELSE /\ resp' = resp
          /\ calls' = made
          /\ pc' = "lookup"

\* Lines 93-120: the Gemini call; its reply, or its failure.
SuggestStage ==
  /\ pc = "suggest"
  /\ \/ \E raw \in RawResponses :
          EnterLoop(Top3(ParseAlternatives(variant, raw)),
                      Append(calls, Call("generateContent", raw, "ok")))
     \/ \E message \in ErrorMessages :
          LET made == Append(calls, Call("generateContent", message, "throw"))
          IN  IF AbsorbsFailure(variant, message)
              THEN EnterLoop(Top3(FallbackAlternatives), made)
              ELSE /\ resp' = GeminiError
                   /\ calls' = Append(made, Sent)
                   /\ pc' = "done"
                   /\ UNCHANGED <<top3, idx>>
  /\ UNCHANGED <<seen, variant, store, adders, name, model, topFuzzy>>

\* AfterLookup without the `if (inStock) return` of lines 128-135.
AfterLookupIgnoresHit(found, k, n) == IF k < n THEN "next" ELSE "exhausted"

\* Where the loop of lines 123-136 is after the lookup of candidate k of n.
AfterLookup(found, k, n) ==
  IF found # <<>> THEN "return" ELSE IF k < n THEN "next" ELSE "exhausted"

\* Lines 123-144: the in-stock lookup of one candidate.
LookupStage ==
  /\ pc = "lookup"
  /\ LET alt == top3[idx]
     IN  \/ /\ RegExpThrows(alt)
            /\ Caught(calls)
            /\ UNCHANGED idx
         \/ /\ ~RegExpThrows(alt)
            /\ Caught(Append(calls, Call("findOne", alt, "throw")))
            /\ UNCHANGED idx
         \/ /\ ~RegExpThrows(alt)
            /\ \E inStock \in FindOneInStock(store, alt) :
                 LET looked == Append(calls,
                                 Call("findOne", alt,
                                      IF inStock # <<>> THEN "hit" ELSE "miss"))
                     after == AfterLookup(inStock, idx, Len(top3))
                 IN  CASE after = "return" ->
                            /\ resp' = AlternativeAvailable(variant, inStock)
                            /\ calls' = Append(looked, Sent)
                            /\ pc' = "done"
                            /\ idx' = idx
                       [] after = "next" ->
                            /\ resp' = resp
                            /\ calls' = looked
                            /\ pc' = "lookup"
                            /\ idx' = idx + 1
                       [] after = "exhausted" ->
                            /\ resp' = NotAvailable(variant, top3)
                            /\ calls' = Append(looked, Sent)
                            /\ pc' = "done"
                            /\ idx' = idx
  /\ UNCHANGED <<seen, variant, store, adders, name, model, topFuzzy, top3>>

\* CheckFinish taking the document answered with out of the stock.
CheckFinishSells ==
  /\ pc = "done"
  /\ pc' = "idle"
  /\ name' = Undefined
  /\ model' = ""
  /\ topFuzzy' = <<>>
  /\ top3' = <<>>
  /\ idx' = 1
  /\ calls' = <<>>
  /\ resp' = NoBody
  /\ store' = [i \in 1..Len(store) |->
                 IF resp.data = <<store[i]>>
                 THEN Doc(store[i].tabletName, store[i].quantityInStock - 1)
                 ELSE store[i]]
  /\ UNCHANGED <<seen, variant, adders>>

\* The request is over; the handler keeps nothing of it.
CheckFinish ==
  /\ pc = "done"
  /\ pc' = "idle"
  /\ name' = Undefined
  /\ model' = ""
  /\ topFuzzy' = <<>>
  /\ top3' = <<>>
  /\ idx' = 1
  /\ calls' = <<>>
  /\ resp' = NoBody
  /\ UNCHANGED <<seen, variant, store, adders>>

(***************************************************************************)
(* POST /: the add-medicine handler                                        *)
(***************************************************************************)
\* A request: where it is, its body (which has a valid price), the status it
\* was answered with and the line that answered.
Adder(at, tabletName, quantityInStock, code) ==
  [pc |-> at, tabletName |-> tabletName, quantityInStock |-> quantityInStock,
   code |-> code, line |-> 0]

NoAdder == Adder("idle", Undefined, UndefinedQuantity, 0)

\* Requests that have not been answered yet.
InFlight == { a \in Adders : adders[a].pc \in {"findOne", "save"} }

\* Lines 22-26: the body arrives; a missing name or quantity is answered 400.
AddReceive(a, tabletName, quantityInStock) ==
  /\ pc = "idle"
  /\ adders[a].pc = "idle"
  /\ Len(store) + Cardinality(InFlight) < MaxRecords
  /\ adders' =
       [adders EXCEPT ![a] =
          IF NameMissing(tabletName) \/ quantityInStock = UndefinedQuantity
          THEN [Adder("done", tabletName, quantityInStock, 400) EXCEPT !.line = 25]
          ELSE Adder("findOne", tabletName, quantityInStock, 0)]
  /\ UNCHANGED <<seen, variant, store, checkVars>>

\* Lines 28-31: the existence check.
AddFindOne(a) ==
  /\ adders[a].pc = "findOne"
  /\ \E existing \in FindOneByName(store, adders[a].tabletName) :
       adders' =
         [adders EXCEPT ![a] =
            IF existing # <<>>
            THEN [@ EXCEPT !.pc = "done", !.code = 400, !.line = 30]
            ELSE [@ EXCEPT !.pc = "save"]]
  /\ UNCHANGED <<seen, variant, store, checkVars>>

\* err.code of the error the unique index raises.
DuplicateKeyError == 11000

\* CatchStatus without the test of err.code: every error is answered 500.
CatchStatusAlways500(errCode) == 500

\* Lines 37-43: the status the catch answers an error with.
CatchStatus(errCode) == IF errCode = DuplicateKeyError THEN 400 ELSE 500

\* Lines 33-43: the insert; the unique index answers a duplicate with error
\* code 11000, which the catch turns into 400.
AddSave(a) ==
  /\ adders[a].pc = "save"
  /\ LET tabletName == trim(adders[a].tabletName)
     IN  IF DuplicateKey(store, tabletName)
         THEN /\ adders' = [adders EXCEPT ![a] =
                             [@ EXCEPT !.pc = "done",
                                       !.code = CatchStatus(DuplicateKeyError),
                                       !.line = 40]]
              /\ store' = store
         ELSE /\ adders' = [adders EXCEPT ![a] =
                             [@ EXCEPT !.pc = "done", !.code = 201, !.line = 36]]
              /\ store' = Append(store, Doc(tabletName, adders[a].quantityInStock))
  /\ UNCHANGED <<seen, variant, checkVars>>

\* The request is over.
AddFinish(a) ==
  /\ adders[a].pc = "done"
  /\ adders' = [adders EXCEPT ![a] = NoAdder]
  /\ UNCHANGED <<seen, variant, store, checkVars>>

\* A client keeps the name and the model identifier it asked with, what the
\* request did and the body it was answered with.
Seen(n, m, made, body) == [name |-> n, model |-> m, calls |-> made, resp |-> body]

\* Nothing kept.
NoSeen == Seen(Undefined, "", <<>>, NoBody)

(***************************************************************************)
(* The specification                                                       *)
(***************************************************************************)
Init ==
  /\ variant \in Variants
  /\ store = <<>>
  /\ adders = [a \in Adders |-> NoAdder]
  /\ pc = "idle"
  /\ name = Undefined
  /\ model = ""
  /\ topFuzzy = <<>>
  /\ top3 = <<>>
  /\ idx = 1
  /\ calls = <<>>
  /\ resp = NoBody
  /\ seen = NoSeen

Next ==
  \/ \E a \in Adders, tabletName \in AddNames \cup {Undefined},
        quantityInStock \in {UndefinedQuantity, 0, 1} :
       AddReceive(a, tabletName, quantityInStock)
  \/ \E a \in Adders : AddFindOne(a)
  \/ \E a \in Adders : AddSave(a)
  \/ \E a \in Adders : AddFinish(a)
  \/ \E n \in QueryNames, m \in QueryModels : CheckReceive(n, m)
  \/ ExactStage
  \/ FuzzyStage
  \/ SuggestStage
  \/ LookupStage
  \/ CheckFinish

Spec == Init /\ [][Next]_vars

(***************************************************************************)
(* The server started on a collection that already holds documents, and a  *)
(* client that sends GET /check, keeps the answer and sends the same       *)
(* request again                                                           *)
(***************************************************************************)
\* Collections mongoose.connect can find: the names are trimmed and differ
\* pairwise (the unique index), the quantities are not negative.
Catalogs ==
  { <<>>,
    << Doc(<<"a", "b", "c">>, 0) >>,
    << Doc(<<"a", "b", "c">>, 1), Doc(<<"A", "B", "C">>, 1) >>,
    << Doc(<<"a", "b", ".">>, 0), Doc(<<"a", "b", "c">>, 1) >>,
    << Doc(<<"a", "b", "c">>, 0), Doc(<<"A", "B", "C">>, 0),
       Doc(<<"b", "c", "a">>, 0), Doc(<<"b", "c">>, 0) >>,
    << Doc(<<"a", "b", "c">>, 0), Doc(<<"I", "b", "u", "p", "r", "o", "f", "e", "n">>, 1) >> }

InitCatalog ==
  /\ variant \in Variants
  /\ store \in Catalogs
  /\ adders = [a \in Adders |-> NoAdder]
  /\ pc = "idle"
  /\ name = Undefined
  /\ model = ""
  /\ topFuzzy = <<>>
  /\ top3 = <<>>
  /\ idx = 1
  /\ calls = <<>>
  /\ resp = NoBody
  /\ seen = NoSeen

\* The client's first request.
ClientAsks(n, m) ==
  /\ seen = NoSeen
  /\ CheckReceive(n, m)

\* The client sends the request it sent before.
ClientRepeats ==
  /\ seen # NoSeen
  /\ CheckReceive(seen.name, seen.model)

\* The request is over: the handler keeps nothing of it, the client keeps
\* the answer.
ClientKeeps ==
  /\ pc = "done"
  /\ seen' = Seen(name, model, calls, resp)
  /\ pc' = "idle"
  /\ name' = Undefined
  /\ model' = ""
  /\ topFuzzy' = <<>>
  /\ top3' = <<>>
  /\ idx' = 1
  /\ calls' = <<>>
  /\ resp' = NoBody
  /\ UNCHANGED <<variant, store, adders>>

NextCatalog ==
  \/ \E n \in QueryNames, m \in QueryModels : ClientAsks(n, m)
  \/ ClientRepeats
  \/ ExactStage
  \/ FuzzyStage
  \/ SuggestStage
  \/ LookupStage
  \/ ClientKeeps

SpecCatalog == InitCatalog /\ [][NextCatalog]_vars

(***************************************************************************)
(* Properties                                                              *)
(*                                                                         *)
(* A GET /check request runs against a collection that no POST / changes   *)
(* meanwhile (CheckReceive waits for the adders, AddReceive for the check),*)
(* so `store` in a state of the request is the collection every stage of   *)
(* the request read.                                                       *)
(***************************************************************************)
Done == pc = "done"

\* The positions of the calls of one kind.
CallsOf(op) == { k \in 1..Len(calls) : calls[k].op = op }

\* A call on the collection failed.
StoreThrew == \E k \in 1..Len(calls) : calls[k].op \in {"findOne", "find"} /\ calls[k].out = "throw"

\* The request was answered 500 by the outer catch.
Answered500 == Done /\ resp.code = 500

\* Equal ignoring case.
SameName(a, b) == toLowerCase(a) = toLowerCase(b)

\* The documents in stock whose name is the text, ignoring case.
InStockNamed(text) ==
  { i \in 1..Len(store) :
      SameName(store[i].tabletName, text) /\ store[i].quantityInStock > 0 }

\* C1 (as claimed): a request whose name equals, ignoring case, the name of a
\* document in stock, and whose calls on the collection do not fail, is
\* answered available_locally with such a document, with no scan of the
\* collection and no call of Gemini.
C1_ExactHitIsAvailableLocally ==
  (Done /\ ~NameMissing(name) /\ InStockNamed(name) # {} /\ ~StoreThrew)
    => /\ resp.status = "available_locally"
       /\ \E i \in InStockNamed(name) : resp.data = <<store[i]>>
       /\ CallsOf("find") = {}
       /\ CallsOf("generateContent") = {}

\* C2: a request is answered exactly once and the answer is the last thing it
\* does; the scan of the collection is the second call and follows a missed
\* exact lookup of the name; the Gemini call is the third call and follows a
\* scan in which the fuzzy search found no name; every other lookup comes
\* after the Gemini call.
C2_OneResponseStagesInOrder ==
  /\ Cardinality(CallsOf("res.json")) <= 1
  /\ (CallsOf("res.json") # {}) <=> Done
  /\ \A k \in CallsOf("res.json") : k = Len(calls)
  /\ \A k \in CallsOf("find") :
       /\ k = 2
       /\ calls[1] = Call("findOne", name, "miss")
  /\ \A k \in CallsOf("generateContent") :
       /\ k = 3
       /\ calls[2] = Call("find", <<>>, "ok")
       /\ topFuzzy = <<>>
  /\ \A k \in CallsOf("findOne") : k = 1 \/ (k > 3 /\ calls[3].op = "generateContent")

\* C2 witness: a request that went through all three stages and was answered
\* with an alternative after a missed candidate.
C2_Witness ==
  /\ Done
  /\ resp.status = "alternative_available_locally"
  /\ Len(calls) = 6
  /\ calls[4].out = "miss"

\* The first n entries of a list.
FirstN(xs, n) == [k \in 1..(IF Len(xs) < n THEN Len(xs) ELSE n) |-> xs[k]]

\* C3: the candidates are the first 3 names of the parsed reply; the lookups
\* after the Gemini call are made for the candidates in their order, at most
\* 3 of them; a lookup that hits is the last one and the request is answered
\* alternative_available_locally with the document it found, every candidate
\* before it having missed.
C3_SubstituteStageFirstHit ==
  /\ Len(top3) <= 3
  /\ \A g \in CallsOf("generateContent") :
       calls[g].out = "ok"
         => top3 = FirstN(ParseAlternatives(variant, calls[g].arg), 3)
  /\ \A k \in CallsOf("findOne") :
       k > 3 =>
         /\ k - 3 <= Len(top3)
         /\ calls[k].arg = top3[k - 3]
         /\ \A j \in 4..(k - 1) : calls[j] = Call("findOne", top3[j - 3], "miss")
         /\ calls[k].out = "hit" =>
              /\ Done
              /\ Len(calls) = k + 1
              /\ resp.status = "alternative_available_locally"
  /\ (Done /\ resp.status = "alternative_available_locally") =>
       LET k == Len(calls) - 1
       IN  /\ k > 3
           /\ calls[k] = Call("findOne", top3[k - 3], "hit")
           /\ \E i \in InStockMatches(store, top3[k - 3]) : resp.data = <<store[i]>>
           /\ \A j \in 1..(k - 4) : InStockMatches(store, top3[j]) = {}

\* C3 witness: the first candidate missed and the second one was found.
C3_Witness ==
  /\ Done
  /\ resp.status = "alternative_available_locally"
  /\ idx = 2
  /\ Len(top3) = 2
  /\ resp.data[1].tabletName = top3[2]

\* The request was answered with the not-available outcome.
IsNotAvailable == resp.status \in {"not_available_anywhere", "not_available_locally_and_no_stocked_alternatives"}

\* Every stage ran and none found anything: the exact lookup, the fuzzy
\* search, and the lookup of each candidate.
NothingFound ==
  /\ ~RegExpThrows(name)
  /\ InStockMatches(store, name) = {}
  /\ TopFuzzy(store, name) = <<>>
  /\ \A j \in 1..Len(top3) : ~RegExpThrows(top3[j]) /\ InStockMatches(store, top3[j]) = {}

\* C4: a request that reached the candidates (the Gemini call was made and not
\* answered 502, no call on the collection failed) and for which no stage
\* found anything is answered with the not-available outcome carrying the
\* candidates, at most 3; and the not-available outcome is only ever given
\* when no stage found anything.
C4_ExhaustedIsNotAvailableAnywhere ==
  Done =>
    /\ ( /\ CallsOf("generateContent") # {}
         /\ resp.code \notin {500, 502}
         /\ NothingFound )
       => /\ IsNotAvailable
          /\ resp.code = 200
          /\ resp.names = top3
          /\ Len(resp.names) <= 3
    /\ IsNotAvailable
       => /\ NothingFound
          /\ resp.names = top3
          /\ Len(resp.names) <= 3
          /\ \A k \in CallsOf("findOne") : calls[k].out = "miss"
          /\ Cardinality(CallsOf("findOne")) = 1 + Len(top3)

\* C4 witness: three candidates were looked up in a collection that holds a
\* document in stock, none was found.
C4_Witness ==
  /\ Done
  /\ IsNotAvailable
  /\ Len(resp.names) = 3
  /\ \E i \in 1..Len(store) : store[i].quantityInStock > 0

\* The request names a model, and the mounted variant does not list it.
UnlistedModel == model # "" /\ model \notin allowedGeminiModels(variant)

\* The request was rejected for its model identifier.
RejectedForModel == Done /\ resp.code = 400 /\ resp.error = "Invalid Gemini model."

\* C5 (as claimed): a request with an unlisted model is answered with a
\* client error whatever the collection holds, and Gemini is not called.
C5_UnlistedModelAlwaysInputError ==
  (Done /\ UnlistedModel /\ ~NameMissing(name) /\ resp.code # 500)
    => /\ resp.code = 400
       /\ CallsOf("generateContent") = {}

\* C5 (amended): a request with an unlisted model never calls Gemini; it is
\* answered with the client error exactly when the exact lookup found no
\* document in stock and the fuzzy search found no name, and it is then never
\* answered with an outcome of the substitute stage.
C5_UnlistedModelRejectedAtStage3 ==
  UnlistedModel =>
    /\ CallsOf("generateContent") = {}
    /\ pc \notin {"suggest", "lookup"}
    /\ (Done /\ ~NameMissing(name) /\ resp.code # 500) =>
         /\ RejectedForModel
              <=> (InStockMatches(store, name) = {} /\ TopFuzzy(store, name) = <<>>)
         /\ resp.code \in {200, 400}
         /\ resp.status \in {"", "available_locally", "not_found_but_similar_exist"}

\* C5 witness: an unlisted model rejected although the collection holds a
\* document in stock.
C5_Witness ==
  /\ RejectedForModel
  /\ model = "gpt-4"
  /\ \E i \in 1..Len(store) : store[i].quantityInStock > 0
  /\ CallsOf("generateContent") = {}

\* C6: a request with an unlisted model whose name is found by the exact
\* lookup is answered available_locally, and one whose name is found by the
\* fuzzy search only is answered with the similar names; neither is rejected
\* for the model.
C6_ModelCheckIsLazy ==
  (Done /\ UnlistedModel /\ ~NameMissing(name) /\ resp.code # 500) =>
    /\ InStockMatches(store, name) # {}
         => /\ resp.status = "available_locally"
            /\ resp.code = 200
            /\ calls = <<Call("findOne", name, "hit"), Sent>>
    /\ (InStockMatches(store, name) = {} /\ TopFuzzy(store, name) # <<>>)
         => /\ resp.status = "not_found_but_similar_exist"
            /\ resp.code = 200
            /\ resp.names = TopFuzzy(store, name)
            /\ calls = <<Call("findOne", name, "miss"), Call("find", <<>>, "ok"), Sent>>

\* C6 witness: an unlisted model, and the answer is the fuzzy stage's.
C6_Witness ==
  /\ Done
  /\ model = "gpt-4"
  /\ resp.status = "not_found_but_similar_exist"

\* C7 (as claimed): a request rejected for its model identifier has made no
\* lookup and no scan of the collection.
C7_RejectedBeforeAnyLookup ==
  RejectedForModel => (CallsOf("findOne") = {} /\ CallsOf("find") = {})

\* C7 (amended): a request rejected for its model identifier has made exactly
\* the exact lookup of the name, which missed, and the scan of the
\* collection, in which the fuzzy search found no name; it has made no Gemini
\* call and no candidate lookup.
C7_RejectedAfterExactAndFuzzy ==
  RejectedForModel =>
    /\ calls = <<Call("findOne", name, "miss"), Call("find", <<>>, "ok"), Sent>>
    /\ topFuzzy = <<>>
    /\ top3 = <<>>
    /\ ~ModelAllowed(variant, model)

\* C7 witness: the default model is not concerned; a listed model of variants
\* 2 and 3 is rejected by variant 1.
C7_Witness ==
  /\ RejectedForModel
  /\ variant = 1
  /\ model = "gemini-1.5-flash"
  /\ Len(calls) = 3

\* C8 (as claimed): a request whose name is absent, empty or only white space
\* is answered with a client error and calls neither the collection nor
\* Gemini.
C8_BlankNameIsInputError ==
  (pc # "idle" /\ (NameMissing(name) \/ trim(name) = <<>>))
    => /\ CallsOf("findOne") = {}
       /\ CallsOf("find") = {}
       /\ CallsOf("generateContent") = {}
       /\ Done => resp.code = 400

\* The Gemini call failed with this message.
GeminiThrew(message) ==
  \E g \in CallsOf("generateContent") : calls[g] = Call("generateContent", message, "throw")

RateLimited == <<"[", "4", "2", "9", "]">>

KeyRejected == <<"[", "4", "0", "3", "]">>

\* C9: when the Gemini call fails with a failure that is not rate limiting,
\* the request is over and answered 502 with the Gemini error, Gemini was
\* called once, and nothing was looked up after the call.
C9_NonTransientFailureIs502 ==
  GeminiThrew(KeyRejected) =>
    /\ Done
    /\ resp.code = 502
    /\ resp.status = ""
    /\ resp.error = "Error communicating with Google Gemini API."
    /\ Cardinality(CallsOf("generateContent")) = 1
    /\ calls = << Call("findOne", name, "miss"), Call("find", <<>>, "ok"),
                  Call("generateContent", KeyRejected, "throw"), Sent >>
    /\ top3 = <<>>

\* C9 witness: variant 2, which absorbs rate limiting, answers 502 to a
\* rejected key.
C9_Witness ==
  /\ Done
  /\ variant = 2
  /\ GeminiThrew(KeyRejected)
  /\ resp.code = 502

\* The request ended in one of the two outcomes of the substitute stage.
SubstituteOutcome ==
  /\ resp.code = 200
  /\ \/ resp.status = "alternative_available_locally"
     \/ IsNotAvailable

\* C10 (as claimed): when the Gemini call fails with rate limiting, the
\* fallback list takes the place of the reply and the request, unless a call
\* on the collection fails, ends in an outcome of the substitute stage, not
\* in the Gemini error.
C10_TransientFailureAbsorbed ==
  GeminiThrew(RateLimited) =>
    /\ top3 = FirstN(FallbackAlternatives, 3)
    /\ (Done /\ ~StoreThrew) => SubstituteOutcome

\* C10 (amended): in variant 2 a failure of the Gemini call whose message
\* contains "429" is absorbed: the candidates are the fallback list, they are
\* looked up, and the request ends, unless a call on the collection fails, in
\* an outcome of the substitute stage.  In variants 1 and 3 the same failure
\* ends the request with the Gemini error, 502, and no candidate is looked up.
C10_TransientFailureAbsorbedInVariant2 ==
  GeminiThrew(RateLimited) =>
    IF variant = 2
    THEN /\ top3 = FirstN(FallbackAlternatives, 3)
         /\ pc \in {"lookup", "done"}
         /\ \A k \in 4..(Len(calls) - (IF Done THEN 1 ELSE 0)) :
              calls[k].op = "findOne" /\ calls[k].arg = FallbackAlternatives[k - 3]
         /\ Done => /\ Len(calls) > 4
                    /\ resp.code # 502
                    /\ ~StoreThrew => SubstituteOutcome
    ELSE /\ Done
         /\ resp.code = 502
         /\ top3 = <<>>
         /\ Len(calls) = 4

\* C10 witness: variant 2, rate limiting, and a fallback name is in stock.
C10_Witness ==
  /\ Done
  /\ variant = 2
  /\ GeminiThrew(RateLimited)
  /\ resp.status = "alternative_available_locally"
  /\ resp.data[1].tabletName = FallbackAlternatives[2]

\* The reply split on commas, each token trimmed, the empty tokens dropped.
Tokens(raw) == filterBoolean([k \in 1..Len(split(raw)) |-> trim(split(raw)[k])])

\* The reply is the token "none", whatever the case of its letters.
IsNoneToken(raw) == toLowerCase(raw) = <<"n", "o", "n", "e">>

\* The Gemini call returned this reply.
SuggesterReplied(raw) == \E k \in 1..Len(calls) : calls[k] = Call("generateContent", raw, "ok")

\* The reply gave no candidate: the request is answered with the
\* not-available status (200) and an empty list right after the Gemini call,
\* with no lookup of a candidate.
ZeroCandidates ==
  /\ Done
  /\ top3 = <<>>
  /\ resp.code = 200
  /\ IsNotAvailable
  /\ resp.names = <<>>
  /\ Len(calls) = 4
  /\ calls[3].op = "generateContent"
  /\ calls[4] = Sent

\* C11 (as claimed): a reply that is the token "none" in any letter case gives
\* no candidate and the request is answered not-available with an empty list;
\* every other reply is split on commas, its tokens trimmed and the empty
\* ones dropped, and the candidates are the first 3 of them.
C11_NoneIsZeroCandidates ==
  \A raw \in RawResponses :
    SuggesterReplied(raw) =>
      IF IsNoneToken(raw) THEN ZeroCandidates
      ELSE top3 = FirstN(Tokens(raw), MaxCandidates)

\* C11 (amended): as above, and in variant 2, which trims the reply before it
\* compares it, a reply that is the token "none" with white space around it
\* gives no candidate either.
C11_NoneIsZeroCandidatesTrimmedInVariant2 ==
  \A raw \in RawResponses :
    SuggesterReplied(raw) =>
      IF IsNoneToken(raw) \/ (variant = 2 /\ IsNoneToken(trim(raw)))
      THEN ZeroCandidates
      ELSE top3 = FirstN(Tokens(raw), MaxCandidates)

\* C11 witness: the reply "NONE" ended the request with an empty list.
C11_Witness ==
  /\ SuggesterReplied(<<"N", "O", "N", "E">>)
  /\ ZeroCandidates

\* The documents out of stock whose name is the text, ignoring case.
OutOfStockNamed(text) ==
  { i \in 1..Len(store) :
      SameName(store[i].tabletName, text) /\ store[i].quantityInStock = 0 }

\* C12 (as claimed): a request whose name equals the name of a document out of
\* stock, no document in stock having that name, and whose calls on the
\* collection do not fail, misses in the exact lookup and is answered
\* not_found_but_similar_exist with a list that contains the name of that
\* document, without a call of Gemini.
C12_FuzzyStageIgnoresStock ==
  (Done /\ ~NameMissing(name) /\ InStockNamed(name) = {} /\ ~StoreThrew)
    => \A i \in OutOfStockNamed(name) :
         /\ calls[1] = Call("findOne", name, "miss")
         /\ resp.status = "not_found_but_similar_exist"
         /\ \E k \in 1..Len(resp.names) : resp.names[k] = store[i].tabletName
         /\ CallsOf("generateContent") = {}

\* The positions of the documents the fuzzy search matches with the name.
FuzzyMatches ==
  { i \in 1..Len(store) : FuseIsMatch(name, store[i].tabletName) }

\* Document i is a better match than document j: a lower score, or the same
\* score and an earlier place in the collection.
BetterMatch(i, j) ==
  \/ FuseScore(name, store[i].tabletName) < FuseScore(name, store[j].tabletName)
  \/ /\ FuseScore(name, store[i].tabletName) = FuseScore(name, store[j].tabletName)
     /\ i < j

\* C13: the list of a not_found_but_similar_exist answer is not empty and has
\* at most 3 names; the names are names of different documents of the
\* collection that the fuzzy search matches, best match first, and every
\* match left out is a worse match than every one listed; nothing is left
\* out while the list has fewer than 3 names.
C13_SuggestionsAreTopRanked ==
  (Done /\ resp.status = "not_found_but_similar_exist") =>
    /\ Len(resp.names) \in 1..3
    /\ \E f \in [1..Len(resp.names) -> FuzzyMatches] :
         /\ \A k \in 1..Len(resp.names) : resp.names[k] = store[f[k]].tabletName
         /\ \A k, l \in 1..Len(resp.names) : k < l => BetterMatch(f[k], f[l])
         /\ \A i \in FuzzyMatches :
              (\A k \in 1..Len(resp.names) : f[k] # i)
                => /\ Len(resp.names) = 3
                   /\ \A k \in 1..Len(resp.names) : BetterMatch(f[k], i)

\* C13 witness: four documents match and the list has the best three, the
\* best of them being the last document of the collection.
C13_Witness ==
  /\ Done
  /\ resp.status = "not_found_but_similar_exist"
  /\ Cardinality(FuzzyMatches) = 4
  /\ Len(resp.names) = 3
  /\ resp.names[1] = store[4].tabletName

\* The answer is alternative_available_locally.
IsAlternative == resp.status = "alternative_available_locally"

\* C14 (as claimed): every alternative_available_locally answer and every
\* not-available answer carries the disclaimer, and the text it carries is
\* the text of both outcomes.
C14_OneDisclaimerForBothOutcomes ==
  (Done /\ (IsAlternative \/ IsNotAvailable)) =>
    /\ resp.disclaimer # ""
    /\ resp.disclaimer = AlternativeDisclaimer(variant)
    /\ resp.disclaimer = NotAvailableDisclaimer(variant)

\* C14 (amended): every alternative_available_locally answer carries the
\* disclaimer of that outcome and every not-available answer the disclaimer
\* of that one, each a text that does not depend on the request; the two
\* texts differ; no other answer carries a disclaimer.  (The text is in the
\* field `disclaimer` or, in the older variants, at the end of `message`.)
C14_OneDisclaimerPerOutcome ==
  Done =>
    /\ IsAlternative =>
         /\ resp.disclaimer # ""
         /\ resp.disclaimer = AlternativeDisclaimer(variant)
    /\ IsNotAvailable =>
         /\ resp.disclaimer # ""
         /\ resp.disclaimer = NotAvailableDisclaimer(variant)
         /\ resp.disclaimer # AlternativeDisclaimer(variant)
    /\ (~IsAlternative /\ ~IsNotAvailable) => resp.disclaimer = ""

\* C14 witness: a not-available answer that lists the candidates looked up.
C14_Witness ==
  /\ Done
  /\ IsNotAvailable
  /\ resp.names # <<>>
  /\ resp.disclaimer = NotAvailableDisclaimer(variant)

\* C15: a call on the collection that fails, in the exact lookup, in the scan
\* or in the lookup of a candidate, is the last call of the request and is
\* made once; the request is answered 500 with the server-error body, which
\* is no outcome (no status, no document, no list), is not the 400 of an
\* input error and is not the 502 of a Gemini failure.
C15_StoreFailureIsServerError ==
  \A k \in 1..Len(calls) :
    (calls[k].op \in {"findOne", "find"} /\ calls[k].out = "throw") =>
      /\ Done
      /\ Len(calls) = k + 1
      /\ calls[k + 1] = Sent
      /\ resp.code = 500
      /\ resp.error \in {"Internal server error", "Server error"}
      /\ resp.status = ""
      /\ resp.data = <<>>
      /\ resp.names = <<>>
      /\ resp \notin {NameRequired, InvalidModel, GeminiError}

\* C15 witness: the lookup of the second candidate failed and the request was
\* answered 500.
C15_Witness ==
  /\ Done
  /\ resp.code = 500
  /\ Len(calls) = 6
  /\ calls[4].out = "miss"
  /\ calls[5].op = "findOne"
  /\ calls[5].out = "throw"

\* C16 (as claimed): no two documents of the collection have names that are
\* equal ignoring case, and a POST / answered 201 added the only document
\* whose name equals, ignoring case, the name it gave.
C16_NamesUniqueIgnoringCase ==
  /\ \A i, j \in 1..Len(store) :
       i # j => ~SameName(store[i].tabletName, store[j].tabletName)
  /\ \A a \in Adders :
       (adders[a].pc = "done" /\ adders[a].code = 201) =>
         Cardinality({ i \in 1..Len(store) :
                         SameName(store[i].tabletName, adders[a].tabletName) }) = 1

\* C17: no step of a GET /check request, from its arrival to its end and
\* whatever its answer, changes the collection.
C17_CheckIsReadOnly ==
  [][(pc # "idle" \/ pc' # "idle") => store' = store]_vars

\* C17 witness: a request that read the collection in all three stages, over
\* a collection that holds documents.
C17_Witness ==
  /\ Done
  /\ IsAlternative
  /\ Len(store) = 2
  /\ Cardinality(CallsOf("findOne")) = 2
  /\ Cardinality(CallsOf("find")) = 1

\* What the environment did to a request: the reply or the failure of the
\* Gemini call, and the failure of a call on the collection.
External(made) ==
  SelectSeq(made, LAMBDA c : c.op = "generateContent" \/ c.out = "throw")

\* The request open now is the one the client sent before, and the
\* environment treated both alike.
RepeatedAlike ==
  /\ Done
  /\ seen # NoSeen
  /\ name = seen.name
  /\ model = seen.model
  /\ External(calls) = External(seen.calls)

\* C18: a request sent again with the same name and model identifier, on the
\* same collection, with the same reply or failure of Gemini and the same
\* failures of the collection, makes the same calls and is answered with the
\* same body.
C18_RepeatedCheckSameAnswer ==
  RepeatedAlike => (resp = seen.resp /\ calls = seen.calls)

\* C18 witness: a repeated request answered, both times, with the first of
\* two documents in stock that the lookup of a candidate selects.
C18_Witness ==
  /\ RepeatedAlike
  /\ IsAlternative
  /\ resp = seen.resp
  /\ Cardinality(InStockMatches(store, top3[idx])) = 2

\* C19 (as claimed): a lookup of stage 1 or of stage 3 hits exactly when a
\* document in stock has the name looked up, ignoring case, and the document
\* the request is then answered with has that name, whatever characters the
\* name is made of.
C19_ExactLookupIsFullString ==
  \A k \in CallsOf("findOne") :
    /\ calls[k].out = "hit" =>
         /\ Done
         /\ resp.data # <<>>
         /\ SameName(resp.data[1].tabletName, calls[k].arg)
    /\ calls[k].out = "miss" => InStockNamed(calls[k].arg) = {}

\* The documents whose name is the name, trimmed, that request a gave.
NamedAs(a) ==
  { i \in 1..Len(store) : store[i].tabletName = trim(adders[a].tabletName) }

\* Request a is answered in this step.
Answers(a) == adders[a].pc # "done" /\ adders'[a].pc = "done"

====
